---- MODULE Spec2Model ----
(***************************************************************************)
(* GPS Photo Renamer (gps_photo_renamer_smart_counter.py): the file-name   *)
(* codec, the smart counter and the per-file pipeline of                   *)
(* GPSPhotoRenamer.process_directory.                                      *)
(*                                                                         *)
(* A file name is a sequence of one-character strings, so that the regular *)
(* expressions of the program are modelled by what they match.             *)
(***************************************************************************)
EXTENDS Integers, Sequences, FiniteSets, TLC

VARIABLES
    cStage,     \* codec run: "none", "built" (fresh name), "tagged" (map backfill name)
    cIn,        \* codec run: the fields the name was built from
    cName,      \* codec run: the name built
    aStage,     \* allocator run: "listed", "allocated"
    aDir,       \* allocator run: the names of the files of the directory
    aResult,    \* allocator run: the value _get_start_counter returned
    uStage,     \* function run: how far the call has come
    uIn,        \* function run: the input of the function
    uOut,       \* function run: what the function gave
    fs,             \* the directory tree: path (<<dir, name>>) -> file
    pc,             \* "idle", "running", "done" (summary printed), "crashed" (uncaught exception), "killed"
    flags,          \* the arguments of the run
    counter,        \* process_directory: counter
    photo_files,    \* process_directory: photo_files, sorted
    idx,            \* process_directory: the index of the next file of the loop
    renamed_count,  \* process_directory: renamed_count
    skipped_count,  \* process_directory: skipped_count
    map_added_count,\* process_directory: map_added_count
    geocode_cache,  \* self.geocode_cache: key -> value
    last,           \* history: what the last step of the loop did
    assigned,       \* history: directory -> largest sequence number given to a name so far
    built,          \* history: the paths fresh renames produced under the default separator
    deleted,        \* history: the paths cleanup_macos_files deleted
    budget          \* what is left of the bounds: runs, arrivals, failures, terminations

cvars == <<cStage, cIn, cName>>
avars == <<aStage, aDir, aResult>>
uvars == <<uStage, uIn, uOut>>
pvars == <<fs, pc, flags, counter, photo_files, idx, renamed_count, skipped_count,
           map_added_count, geocode_cache, last, assigned, built, deleted, budget>>
vars == <<cStage, cIn, cName, aStage, aDir, aResult, uStage, uIn, uOut, fs, pc, flags, counter, photo_files,
          idx, renamed_count, skipped_count, map_added_count, geocode_cache, last,
          assigned, built, deleted, budget>>

----------------------------------------------------------------------------
(* Characters and strings *)

Digit == {"0", "1", "2", "3", "4", "5", "6", "7", "8", "9"}

UpperLetter == {"A", "B", "C", "D", "E", "F", "G", "H", "I", "J", "K", "L", "M",
                "N", "O", "P", "Q", "R", "S", "T", "U", "V", "W", "X", "Y", "Z"}

LowerLetter == {"a", "b", "c", "d", "e", "f", "g", "h", "i", "j", "k", "l", "m",
                "n", "o", "p", "q", "r", "s", "t", "u", "v", "w", "x", "y", "z"}

DigitChar == <<"0", "1", "2", "3", "4", "5", "6", "7", "8", "9">>

IsDigits(s) == \A i \in 1..Len(s) : s[i] \in Digit

\* str.startswith / str.endswith
StartsWith(s, p) == Len(s) >= Len(p) /\ SubSeq(s, 1, Len(p)) = p

EndsWith(s, p) == Len(s) >= Len(p) /\ SubSeq(s, Len(s) - Len(p) + 1, Len(s)) = p

\* int(): the value of a string of decimal digits
RECURSIVE StrToInt(_)
StrToInt(s) ==
    IF s = <<>> THEN 0
    ELSE 10 * StrToInt(SubSeq(s, 1, Len(s) - 1))
         + (CHOOSE d \in 0..9 : DigitChar[d + 1] = s[Len(s)])

\* str(n) for n >= 0
RECURSIVE IntToStr(_)
IntToStr(n) ==
    IF n < 10 THEN <<DigitChar[n + 1]>>
    ELSE IntToStr(n \div 10) \o <<DigitChar[(n % 10) + 1]>>

RECURSIVE ZeroPad(_, _)
ZeroPad(s, width) == IF Len(s) >= width THEN s ELSE ZeroPad(<<"0">> \o s, width)

\* f"{counter:04d}": at least four digits, more when the value needs them
SeqWidth == 4

Fmt04d(n) == ZeroPad(IntToStr(n), SeqWidth)

\* pathlib: PurePath.suffix and PurePath.stem of a file name
LastDot(name) ==
    IF \E i \in 1..Len(name) : name[i] = "."
    THEN CHOOSE i \in 1..Len(name) :
            name[i] = "." /\ \A j \in (i + 1)..Len(name) : name[j] # "."
    ELSE 0

PathSuffix(name) ==
    LET i == LastDot(name)
    IN  IF 1 < i /\ i < Len(name) THEN SubSeq(name, i, Len(name)) ELSE <<>>

PathStem(name) ==
    LET i == LastDot(name)
    IN  IF 1 < i /\ i < Len(name) THEN SubSeq(name, 1, i - 1) ELSE name

----------------------------------------------------------------------------
(* The file-name codec *)

MinTsDigits == 12
MaxTsDigits == 14

MAP_TAG == <<"_", "M", "A", "P">>

\* the digits a pattern ^\d{12,14} can take before the character at n + 1
TsLengths == MinTsDigits..MaxTsDigits

\* r'^\d{12,14}_\d{4}' with re.match: a prefix match, the separator is "_"
is_already_processed(filename) ==
    \E n \in TsLengths :
        /\ Len(filename) >= n + 1 + SeqWidth
        /\ IsDigits(SubSeq(filename, 1, n))
        /\ filename[n + 1] = "_"
        /\ IsDigits(SubSeq(filename, n + 2, n + 1 + SeqWidth))

has_map_tag(filename) == EndsWith(PathStem(filename), MAP_TAG)

\* re.match(r'^(\d{12,14})', name): greedy, the longest run of 12 to 14 digits
datetime_from_name(name) ==
    IF \E n \in TsLengths : Len(name) >= n /\ IsDigits(SubSeq(name, 1, n))
    THEN LET n == CHOOSE k \in TsLengths :
                    /\ Len(name) >= k /\ IsDigits(SubSeq(name, 1, k))
                    /\ \A m \in TsLengths :
                          (Len(name) >= m /\ IsDigits(SubSeq(name, 1, m))) => m <= k
         IN  SubSeq(name, 1, n)
    ELSE <<>>

\* re.compile(r'^\d{12,14}_(\d{4})').match(file.name): TRUE when it matches
CounterPattern_Min8(name) ==
    \E n \in 8..MaxTsDigits :
        /\ Len(name) >= n + 1 + SeqWidth
        /\ IsDigits(SubSeq(name, 1, n))
        /\ name[n + 1] = "_"
        /\ IsDigits(SubSeq(name, n + 2, n + 1 + SeqWidth))

CounterPattern(name) ==
    \E n \in TsLengths :
        /\ Len(name) >= n + 1 + SeqWidth
        /\ IsDigits(SubSeq(name, 1, n))
        /\ name[n + 1] = "_"
        /\ IsDigits(SubSeq(name, n + 2, n + 1 + SeqWidth))

\* match.group(1): the four digits after the first "_"
CounterGroup(name) ==
    LET n == CHOOSE k \in 1..Len(name) : name[k] = "_" /\ \A j \in 1..(k - 1) : name[j] # "_"
    IN  SubSeq(name, n + 1, n + SeqWidth)

Max2(a, b) == IF a >= b THEN a ELSE b

\* the loop of _get_start_counter over directory.iterdir()
RECURSIVE ScanCounters(_, _)
ScanCounters(names, max_counter) ==
    IF names = {} THEN max_counter
    ELSE LET file == CHOOSE f \in names : TRUE
         IN  ScanCounters(names \ {file},
                          IF CounterPattern(file)
                          THEN Max2(max_counter, StrToInt(CounterGroup(file)))
                          ELSE max_counter)

_get_start_counter_NoIncrement(names) == ScanCounters(names, 0)

_get_start_counter(names) == ScanCounters(names, 0) + 1

----------------------------------------------------------------------------
(* Optional values: Python's None and a dict *)

None == [some |-> FALSE]

Location(city, country_code) ==
    [some |-> TRUE, city |-> city, country_code |-> country_code]

Coordinates(latitude, longitude) ==
    [some |-> TRUE, latitude |-> latitude, longitude |-> longitude]

\* re.IGNORECASE on the literal _MAP
IsMapTagIgnoreCase(s) ==
    /\ Len(s) = 4
    /\ s[1] = "_"
    /\ s[2] \in {"M", "m"}
    /\ s[3] \in {"A", "a"}
    /\ s[4] \in {"P", "p"}

\* [A-Z] under re.IGNORECASE
IsLetterIgnoreCase(c) == c \in UpperLetter \cup LowerLetter

\* r'_\d{4}_(.+)_([A-Z]{2})(?:_MAP)?\.' matched with its first "_" at i and
\* group 1 ending at e
LocMatchAt(name, i, e) ==
    /\ i >= 1 /\ e >= i + 6 /\ Len(name) >= e + 4
    /\ name[i] = "_"
    /\ IsDigits(SubSeq(name, i + 1, i + 4))
    /\ name[i + 5] = "_"
    /\ name[e + 1] = "_"
    /\ IsLetterIgnoreCase(name[e + 2])
    /\ IsLetterIgnoreCase(name[e + 3])
    /\ \/ name[e + 4] = "."
       \/ /\ Len(name) >= e + 8
          /\ IsMapTagIgnoreCase(SubSeq(name, e + 4, e + 7))
          /\ name[e + 8] = "."

\* re.search: the leftmost start, then the longest group 1 (greedy .+)
location_from_name(name) ==
    LET starts == {i \in 1..Len(name) : \E e \in 1..Len(name) : LocMatchAt(name, i, e)}
    IN  IF starts = {} THEN None
        ELSE LET i == CHOOSE k \in starts : \A m \in starts : k <= m
                 e == CHOOSE k \in 1..Len(name) :
                        /\ LocMatchAt(name, i, k)
                        /\ \A m \in 1..Len(name) : LocMatchAt(name, i, m) => m <= k
             IN  Location(SubSeq(name, i + 6, e), SubSeq(name, e + 2, e + 3))

\* a name that takes the map tag whenever a map is asked for
new_name_MapWithoutLocation(datetime_str, separator, count, location, add_map, gps_data, suffix) ==
    LET base_name == datetime_str \o <<separator>> \o Fmt04d(count)
    IN  IF location.some
        THEN base_name \o <<separator>> \o location.city \o <<separator>>
                \o location.country_code
                \o (IF add_map THEN MAP_TAG ELSE <<>>)
                \o suffix
        ELSE base_name \o (IF add_map THEN MAP_TAG ELSE <<>>) \o suffix

\* process_directory, "Build new filename"
new_name(datetime_str, separator, count, location, add_map, gps_data, suffix) ==
    LET base_name == datetime_str \o <<separator>> \o Fmt04d(count)
    IN  IF location.some
        THEN base_name \o <<separator>> \o location.city \o <<separator>>
                \o location.country_code
                \o (IF add_map /\ gps_data.some THEN MAP_TAG ELSE <<>>)
                \o suffix
        ELSE base_name \o suffix

map_name_TagAfterSuffix(name) == name \o MAP_TAG

\* process_directory, "Rename file to add _MAP tag"
map_name(name) == PathStem(name) \o MAP_TAG \o PathSuffix(name)

----------------------------------------------------------------------------
(* Inputs of the codec and allocator runs *)

JPG == <<".", "j", "p", "g">>
TXT == <<".", "t", "x", "t">>

\* datetime strings: 14 digits as strftime('%Y%m%d%H%M%S') gives them, and the
\* 12 and 13 digit runs the patterns accept as well
Ts14 == <<"2", "0", "2", "4", "0", "3", "0", "5", "1", "0", "0", "0", "0", "0">>
Ts14b == <<"2", "0", "2", "4", "0", "1", "0", "1", "1", "2", "0", "0", "0", "0">>
Ts13 == SubSeq(Ts14, 1, 13)
Ts12 == <<"2", "0", "2", "4", "0", "1", "0", "1", "1", "2", "0", "0">>
Ts8 == <<"2", "0", "2", "4", "0", "1", "0", "1">>
Ts15 == Ts14 \o <<"7">>
\* the time of a run, later than the photos
TsSave == <<"2", "0", "2", "4", "1", "1", "0", "3", "0", "9", "3", "0", "0", "0">>

CodecTimestamps == {Ts12, Ts13, Ts14}

CodecSequences == {0, 1, 7, 42, 9999}

Separators == {"_", "-"}

Graz == Location(<<"G", "r", "a", "z">>, <<"A", "T">>)
SanFrancisco ==
    Location(<<"S", "a", "n", "-", "F", "r", "a", "n", "c", "i", "s", "c", "o">>, <<"U", "S">>)
StGallen == Location(<<"S", "t", ".", "G", "a", "l", "l", "e", "n">>, <<"C", "H">>)

CodecLocations == {Graz, SanFrancisco, StGallen}

\* the names a directory holds in an allocator run
NamePool ==
    { Ts8 \o <<"_">> \o Fmt04d(3) \o <<"_">> \o Graz.city \o <<"_">> \o Graz.country_code \o JPG,
      Ts8 \o <<"_">> \o Fmt04d(7) \o JPG,
      Ts12 \o <<"_">> \o Fmt04d(3) \o <<"_">> \o Graz.city \o <<"_">> \o Graz.country_code \o JPG,
      Ts12 \o <<"_">> \o Fmt04d(7) \o JPG,
      Ts14 \o <<"_">> \o Fmt04d(5) \o MAP_TAG \o JPG,
      Ts14 \o <<"_">> \o Fmt04d(9) \o TXT,
      Ts14 \o <<"-">> \o Fmt04d(12) \o JPG,
      Ts15 \o <<"_">> \o Fmt04d(11) \o JPG,
      Ts13 \o <<"_">> \o Fmt04d(10000) \o JPG,
      <<"I", "M", "G", "_">> \o Fmt04d(20) \o JPG,
      <<"n", "o", "t", "e", "s">> \o TXT }

MaxDirFiles == 3

----------------------------------------------------------------------------
(* The directory tree *)

\* the characters of the model's names in code point order (str comparison)
CodePoints ==
    <<"-", ".", "0", "1", "2", "3", "4", "5", "6", "7", "8", "9",
      "A", "B", "C", "D", "E", "F", "G", "H", "I", "J", "K", "L", "M",
      "N", "O", "P", "Q", "R", "S", "T", "U", "V", "W", "X", "Y", "Z", "_",
      "a", "b", "c", "d", "e", "f", "g", "h", "i", "j", "k", "l", "m",
      "n", "o", "p", "q", "r", "s", "t", "u", "v", "w", "x", "y", "z">>

Ord(c) == CHOOSE i \in 1..Len(CodePoints) : CodePoints[i] = c

\* s < t for str
RECURSIVE StrLess(_, _)
StrLess(s, t) ==
    IF t = <<>> THEN FALSE
    ELSE IF s = <<>> THEN TRUE
    ELSE IF s[1] = t[1] THEN StrLess(Tail(s), Tail(t))
    ELSE Ord(s[1]) < Ord(t[1])

\* the directory of a run and its one subdirectory
TOP == "top"
SUB == "sub"
Dirs == {TOP, SUB}

SubDirName == <<"s", "u", "b">>

\* Path.parts below the directory of the run
Parts(path) == IF path[1] = TOP THEN <<path[2]>> ELSE <<SubDirName, path[2]>>

\* p < q for Path: the parts compared in order
PathLess(p, q) ==
    LET a == Parts(p)
        b == Parts(q)
    IN  IF a[1] # b[1] THEN StrLess(a[1], b[1])
        ELSE IF Len(a) = 1 \/ Len(b) = 1 THEN Len(a) < Len(b)
        ELSE StrLess(a[2], b[2])

\* sorted(set(photo_files))
RECURSIVE Sorted(_)
Sorted(paths) ==
    IF paths = {} THEN <<>>
    ELSE LET least == CHOOSE p \in paths : \A q \in paths \ {p} : PathLess(p, q)
         IN  <<least>> \o Sorted(paths \ {least})

JPG_UPPER == <<".", "J", "P", "G">>

\* PHOTO_EXTENSIONS and their upper-case forms, as the globs '*{ext}' and
\* '*{ext.upper()}' see them
PhotoSuffixes ==
    { JPG, JPG_UPPER,
      <<".", "j", "p", "e", "g">>, <<".", "J", "P", "E", "G">>,
      <<".", "p", "n", "g">>, <<".", "P", "N", "G">>,
      <<".", "h", "e", "i", "c">>, <<".", "H", "E", "I", "C">>,
      <<".", "h", "e", "i", "f">>, <<".", "H", "E", "I", "F">> }

DS_STORE == <<".", "D", "S", "_", "S", "t", "o", "r", "e">>

RESOURCE_FORK == <<".", "_">>

\* the filter of _collect_photo_files
IsMacFile(name) == StartsWith(name, RESOURCE_FORK) \/ name = DS_STORE

GlobPhoto(name) == \E ext \in PhotoSuffixes : EndsWith(name, ext)

_collect_photo_files(tree, recursive) ==
    Sorted({p \in DOMAIN tree :
                /\ recursive \/ p[1] = TOP
                /\ GlobPhoto(p[2])
                /\ ~IsMacFile(p[2])})

\* the names directory.iterdir() yields that are files
FileNames(tree, dir) == {p[2] : p \in {q \in DOMAIN tree : q[1] = dir}}

\* a cleanup that globs the top directory only
cleanup_macos_files_TopOnly(tree) ==
    [p \in {q \in DOMAIN tree :
                ~(q[1] = TOP /\ (q[2] = DS_STORE \/ StartsWith(q[2], RESOURCE_FORK)))}
        |-> tree[p]]

\* cleanup_macos_files: rglob('.DS_Store') and rglob('._*')
cleanup_macos_files(tree) ==
    [p \in {q \in DOMAIN tree : ~(q[2] = DS_STORE \/ StartsWith(q[2], RESOURCE_FORK))}
        |-> tree[p]]

\* os.rename on POSIX: the file moves, a file at the target is replaced
Rename(tree, old, new) ==
    [p \in (DOMAIN tree \ {old}) \cup {new} |-> IF p = new THEN tree[old] ELSE tree[p]]

----------------------------------------------------------------------------
(* Geocoding *)

\* coordinates are integers, in units of 0.00001 degree
Scale5 == 100000

Abs(v) == IF v < 0 THEN -v ELSE v

\* f"{v:.5f}"
Fmt5f(v) ==
    (IF v < 0 THEN <<"-">> ELSE <<>>)
        \o IntToStr(Abs(v) \div Scale5) \o <<".">> \o ZeroPad(IntToStr(Abs(v) % Scale5), 5)

\* f"{v:.4f}": rounded to four decimals
Fmt4f(v) ==
    LET r == (Abs(v) + 5) \div 10
    IN  (IF v < 0 THEN <<"-">> ELSE <<>>)
            \o IntToStr(r \div 10000) \o <<".">> \o ZeroPad(IntToStr(r % 10000), 4)

\* a key of five decimals
ReverseKey_FiveDecimals(gps) == Fmt5f(gps.latitude) \o <<",">> \o Fmt5f(gps.longitude)

\* cache_key = f"{lat:.4f},{lon:.4f}"
ReverseKey(gps) == Fmt4f(gps.latitude) \o <<",">> \o Fmt4f(gps.longitude)

\* cache_key = f"fwd:{city}:{country_code}"
ForwardKey(city, country_code) ==
    <<"f", "w", "d", ":">> \o city \o <<":">> \o country_code

\* "If all services fail, return coordinates"
PseudoLocation(gps) == Location(Fmt5f(gps.latitude), Fmt5f(gps.longitude))

\* geocode_location: answers is what the providers would answer, in the order
\* Nominatim, LocationIQ, BigDataCloud (None: the provider fails); the result
\* is [location, cache]
geocode_location(cache, gps, use_geocoding, api_key, answers) ==
    LET cache_key == ReverseKey(gps)
        put(result) == [k \in DOMAIN cache \cup {cache_key} |->
                            IF k = cache_key THEN result ELSE cache[k]]
    IN  IF ~use_geocoding THEN [location |-> None, cache |-> cache]
        ELSE IF cache_key \in DOMAIN cache
        THEN [location |-> cache[cache_key], cache |-> cache]
        ELSE IF answers[1].some
        THEN [location |-> answers[1], cache |-> put(answers[1])]
        ELSE IF api_key /\ answers[2].some
        THEN [location |-> answers[2], cache |-> put(answers[2])]
        ELSE IF answers[3].some
        THEN [location |-> answers[3], cache |-> put(answers[3])]
        ELSE [location |-> PseudoLocation(gps), cache |-> cache]

\* forward_geocode: answer is what the search would answer (None: it fails
\* or finds nothing); the result is [gps, cache]
forward_geocode(cache, city, country_code, answer) ==
    LET cache_key == ForwardKey(city, country_code)
    IN  IF cache_key \in DOMAIN cache
        THEN [gps |-> cache[cache_key], cache |-> cache]
        ELSE IF answer.some
        THEN [gps |-> answer,
              cache |-> [k \in DOMAIN cache \cup {cache_key} |->
                            IF k = cache_key THEN answer ELSE cache[k]]]
        ELSE [gps |-> None, cache |-> cache]

----------------------------------------------------------------------------
(* Files, run arguments and what the world answers *)

\* a file: exif_date is the date of its EXIF block as get_datetime_from_exif
\* formats it (<<>>: none that parses), mtime its modification time in the
\* same format (<<>>: not readable), gps what get_gps_data gives for it; text,
\* maps and saves count the text labels drawn on it, the map clips composited
\* onto it and the times add_watermark_to_image saved it
File(id, exif_date, mtime, gps, maps) ==
    [id |-> id, exif_date |-> exif_date, mtime |-> mtime, gps |-> gps,
     text |-> 0, maps |-> maps, saves |-> maps]

\* get_datetime_from_exif: the EXIF date, else the modification time, else None
get_datetime_from_exif(file) ==
    IF file.exif_date # <<>> THEN file.exif_date ELSE file.mtime

GrazGps == Coordinates(4707070, 1543950)

\* what a provider answers for a coordinate, and the search for a place
ProviderLocation(gps) == Graz

PlaceCoordinates(city, country_code) == GrazGps

IMG(n) == <<"I", "M", "G", "_">> \o Fmt04d(n)

StructuredName(ts, n, location, map, suffix) ==
    new_name(ts, "_", n, location, map, GrazGps, suffix)

Entry(dir, name, file) == [path |-> <<dir, name>>, file |-> file]

\* the files a tree may hold before the first run
InitialEntries ==
    { Entry(TOP, IMG(1) \o JPG, File(1, Ts14, Ts14, GrazGps, 0)),
      Entry(TOP, IMG(2) \o JPG, File(2, <<>>, Ts14b, None, 0)),
      Entry(TOP, IMG(3) \o JPG_UPPER, File(3, <<>>, <<>>, None, 0)),
      Entry(TOP, StructuredName(Ts14, 3, Graz, FALSE, JPG), File(4, Ts14, Ts14, GrazGps, 0)),
      Entry(TOP, StructuredName(Ts14b, 4, Graz, FALSE, JPG), File(5, <<>>, Ts14b, None, 0)),
      Entry(TOP, StructuredName(Ts14, 5, Graz, TRUE, JPG), File(6, Ts14, TsSave, GrazGps, 1)),
      Entry(TOP, StructuredName(Ts14b, 6, None, FALSE, JPG), File(7, <<>>, Ts14b, None, 0)),
      Entry(TOP, DS_STORE, File(8, <<>>, Ts14, None, 0)),
      Entry(TOP, RESOURCE_FORK \o IMG(1) \o JPG, File(9, <<>>, Ts14, None, 0)),
      Entry(SUB, IMG(7) \o JPG, File(11, Ts14, Ts14, GrazGps, 0)),
      Entry(SUB, DS_STORE, File(12, <<>>, Ts14, None, 0)),
      Entry(SUB, StructuredName(Ts14, 1, None, FALSE, JPG), File(15, Ts14, Ts14, GrazGps, 0)) }

\* the photos that may arrive between two runs
ArrivalEntries ==
    { Entry(TOP, IMG(8) \o JPG, File(13, Ts14, Ts14, GrazGps, 0)),
      Entry(SUB, IMG(9) \o JPG, File(14, <<>>, Ts14b, None, 0)) }

TreeOf(entries) ==
    [p \in {e.path : e \in entries} |-> (CHOOSE e \in entries : e.path = p).file]

MaxInitFiles == 2
MaxRuns == 2
MaxArrivals == 1
MaxFaults == 1
MaxKills == 1

\* the arguments of process_directory and of the constructor
FlagSets ==
    [dry_run : BOOLEAN, add_watermark : BOOLEAN, add_map : BOOLEAN,
     reprocess_map : BOOLEAN, skip_processed : BOOLEAN, recursive : BOOLEAN,
     separator : Separators, use_geocoding : BOOLEAN]

\* the defaults of process_directory (lines 825-829) and of main
DefaultFlags ==
    [dry_run |-> FALSE, add_watermark |-> FALSE, add_map |-> FALSE,
     reprocess_map |-> FALSE, skip_processed |-> TRUE, recursive |-> FALSE,
     separator |-> "_", use_geocoding |-> TRUE]

\* what the three reverse providers answer to one lookup, and whether the
\* renamer was given an API key
ProviderAnswers(gps) ==
    { <<ProviderLocation(gps), ProviderLocation(gps), ProviderLocation(gps)>>,
      <<None, ProviderLocation(gps), ProviderLocation(gps)>>,
      <<None, None, ProviderLocation(gps)>>,
      <<None, None, None>> }

\* the lookups of one fresh rename: none without GPS or with geocoding off,
\* none that the cache answers
Lookups(cache, gps, use_geocoding) ==
    IF gps.some /\ use_geocoding /\ ReverseKey(gps) \notin DOMAIN cache
    THEN ProviderAnswers(gps) \X BOOLEAN
    ELSE {<<<<None, None, None>>, FALSE>>}

\* add_watermark_to_image: opens = FALSE is an exception before the save
\* (the function returns False and the file is as it was); tile says whether
\* get_map_tile returns an image; keep_exif whether the save keeps the EXIF
\* block (piexif present and able to load it)
RenderWorlds == [opens : BOOLEAN, tile : BOOLEAN, keep_exif : BOOLEAN]

CalmWorld == [opens |-> TRUE, tile |-> TRUE, keep_exif |-> TRUE]

\* the worlds that differ for one call: the tile matters when a map is asked
\* for, the EXIF block when the file has one
WorldsFor(file, wants_map) ==
    {w \in RenderWorlds :
        /\ (~w.opens => w.tile /\ w.keep_exif)
        /\ (~wants_map => w.tile)
        /\ ((file.exif_date = <<>> /\ ~file.gps.some) => w.keep_exif)}

\* the things that went wrong in one call
WorldFaults(w) ==
    (IF w.opens THEN 0 ELSE 1) + (IF w.tile THEN 0 ELSE 1)
    + (IF w.keep_exif THEN 0 ELSE 1)

\* img.save: the file is rewritten, so its modification time is the time of
\* the save; its EXIF block (date, GPS) is kept only with keep_exif
add_watermark_to_image(file, datetime_str, location, gps_coords, add_map, map_only, world) ==
    LET draw_text == ~map_only /\ (datetime_str # <<>> \/ (location.some /\ location.city # <<>>))
        draw_map == /\ add_map /\ gps_coords.some
                    /\ gps_coords.latitude # 0 /\ gps_coords.longitude # 0
                    /\ world.tile
        saved == [file EXCEPT !.text = @ + (IF draw_text THEN 1 ELSE 0),
                              !.maps = @ + (IF draw_map THEN 1 ELSE 0),
                              !.saves = @ + 1,
                              !.mtime = TsSave,
                              !.gps = IF world.keep_exif THEN @ ELSE None,
                              !.exif_date = IF world.keep_exif THEN @ ELSE <<>>]
    IN  IF world.opens THEN [success |-> TRUE, file |-> saved]
        ELSE [success |-> FALSE, file |-> file]

----------------------------------------------------------------------------
(* process_directory *)

NoStep ==
    [act |-> "none", outcome |-> "none", path |-> <<>>, new_path |-> <<>>,
     seq |-> 0, prev |-> 0, location |-> None, gps |-> None]

Step(act, outcome, path, new_path, seq, prev, location, gps) ==
    [act |-> act, outcome |-> outcome, path |-> path, new_path |-> new_path,
     seq |-> seq, prev |-> prev, location |-> location, gps |-> gps]

\* the sequence number a name of the tool carries, under either separator
\* (0: the name carries none); history only
SequenceOfName(name) ==
    LET t == datetime_from_name(name)
    IN  IF /\ t # <<>>
           /\ Len(name) >= Len(t) + 1 + SeqWidth
           /\ name[Len(t) + 1] \in Separators
           /\ IsDigits(SubSeq(name, Len(t) + 2, Len(t) + 1 + SeqWidth))
        THEN LET rest == SubSeq(name, Len(t) + 2, Len(name))
                 n == CHOOSE k \in SeqWidth..Len(rest) :
                        /\ IsDigits(SubSeq(rest, 1, k))
                        /\ (k < Len(rest) => rest[k + 1] \notin Digit)
             IN  StrToInt(SubSeq(rest, 1, n))
        ELSE 0

RECURSIVE MaxOf(_)
MaxOf(S) ==
    IF S = {} THEN 0
    ELSE LET x == CHOOSE y \in S : TRUE IN Max2(x, MaxOf(S \ {x}))

CodecQuiet == cStage = "none" /\ cIn = None /\ cName = <<>>

AllocQuiet == aStage = "none" /\ aDir = {} /\ aResult = 0

UnitQuiet == uStage = "none" /\ uIn = None /\ uOut = None

PipeQuiet ==
    /\ fs = <<>> /\ pc = "off" /\ flags = DefaultFlags /\ counter = 0
    /\ photo_files = <<>> /\ idx = 0
    /\ renamed_count = 0 /\ skipped_count = 0 /\ map_added_count = 0
    /\ geocode_cache = <<>> /\ last = NoStep
    /\ assigned = [d \in Dirs |-> 0]
    /\ built = {}
    /\ deleted = {}
    /\ budget = [runs |-> 0, arrivals |-> 0, faults |-> 0, kills |-> 0]

\* the state before a run of the tool over one of the trees
PipeInit(trees, runs, faults, kills) ==
    /\ fs \in trees
    /\ pc = "idle" /\ flags = DefaultFlags /\ counter = 0
    /\ photo_files = <<>> /\ idx = 0
    /\ renamed_count = 0 /\ skipped_count = 0 /\ map_added_count = 0
    /\ geocode_cache = <<>> /\ last = NoStep
    /\ assigned = [d \in Dirs |-> MaxOf({SequenceOfName(n) : n \in FileNames(fs, d)})]
    /\ built = {}
    /\ deleted = {}
    /\ budget = [runs |-> runs, arrivals |-> MaxArrivals, faults |-> faults,
                 kills |-> kills]

BackfillApplies_IgnoreTag(fl, name) ==
    is_already_processed(name) /\ fl.reprocess_map /\ fl.add_map

\* line 893: the map backfill branch
BackfillApplies(fl, name) ==
    is_already_processed(name) /\ fl.reprocess_map /\ fl.add_map /\ ~has_map_tag(name)

SkipApplies_OnlyTagged(fl, name) ==
    fl.skip_processed /\ is_already_processed(name) /\ has_map_tag(name)

\* line 957: the normal skip
SkipApplies(fl, name) == fl.skip_processed /\ is_already_processed(name)

Stepping == pc = "running" /\ idx <= Len(photo_files)

photo_path == photo_files[idx]

\* main and the head of process_directory: the counter, the photo list
Start(fl) ==
    /\ flags' = fl
    /\ photo_files' = _collect_photo_files(fs, fl.recursive)
    /\ counter' = _get_start_counter(FileNames(fs, TOP))
    /\ pc' = IF photo_files' = <<>> THEN "done" ELSE "running"
    /\ idx' = 1
    /\ renamed_count' = 0 /\ skipped_count' = 0 /\ map_added_count' = 0
    /\ geocode_cache' = <<>>
    /\ last' = NoStep
    /\ UNCHANGED <<fs, assigned, built, deleted, cvars, avars, uvars>>

StartRun ==
    /\ pc = "idle"
    /\ budget.runs > 0
    /\ \E fl \in FlagSets : Start(fl)
    /\ budget' = [budget EXCEPT !.runs = @ - 1]

StepSkip_Counts ==
    /\ Stepping
    /\ ~BackfillApplies(flags, photo_path[2])
    /\ SkipApplies(flags, photo_path[2])
    /\ skipped_count' = skipped_count + 1
    /\ counter' = counter + 1
    /\ idx' = idx + 1
    /\ last' = Step("skip", "skipped", photo_path, photo_path, 0, 0, None, None)
    /\ UNCHANGED <<fs, pc, flags, photo_files, renamed_count, map_added_count,
                   geocode_cache, assigned, built, deleted, budget, cvars, avars, uvars>>

\* lines 956-960
StepSkip ==
    /\ Stepping
    /\ ~BackfillApplies(flags, photo_path[2])
    /\ SkipApplies(flags, photo_path[2])
    /\ skipped_count' = skipped_count + 1
    /\ idx' = idx + 1
    /\ last' = Step("skip", "skipped", photo_path, photo_path, 0, 0, None, None)
    /\ UNCHANGED <<fs, pc, flags, counter, photo_files, renamed_count, map_added_count,
                   geocode_cache, assigned, built, deleted, budget, cvars, avars, uvars>>

\* lines 893-954
StepBackfill ==
    /\ Stepping
    /\ BackfillApplies(flags, photo_path[2])
    /\ LET name == photo_path[2]
           file == fs[photo_path]
           datetime_str == datetime_from_name(name)
           location == location_from_name(name)
           ask == ~file.gps.some /\ location.some
       IN  \E answer \in IF ask
                         THEN {None, PlaceCoordinates(location.city, location.country_code)}
                         ELSE {None} :
             LET fwd == IF ask
                        THEN forward_geocode(geocode_cache, location.city,
                                             location.country_code, answer)
                        ELSE [gps |-> file.gps, cache |-> geocode_cache]
                 gps_data == fwd.gps
                 new_path == <<photo_path[1], map_name(name)>>
             IN  /\ geocode_cache' = fwd.cache
                 /\ idx' = idx + 1
                 /\ UNCHANGED <<flags, counter, photo_files, renamed_count, assigned,
                                built, deleted, cvars, avars, uvars>>
                 /\ IF ~gps_data.some
                    THEN /\ skipped_count' = skipped_count + 1
                         /\ last' = Step("backfill", "no_gps", photo_path, photo_path,
                                         0, 0, location, gps_data)
                         /\ UNCHANGED <<fs, pc, map_added_count, budget>>
                    ELSE IF flags.dry_run
                    THEN /\ map_added_count' = map_added_count + 1
                         /\ last' = Step("backfill", "would_add", photo_path, photo_path,
                                         0, 0, location, gps_data)
                         /\ UNCHANGED <<fs, pc, skipped_count, budget>>
                    ELSE \E world \in WorldsFor(file, TRUE), rename_ok \in BOOLEAN :
                           LET r == add_watermark_to_image(file, datetime_str, location,
                                                           gps_data, TRUE, TRUE, world)
                               faults == WorldFaults(world) + (IF rename_ok THEN 0 ELSE 1)
                           IN  /\ faults <= budget.faults
                               /\ world.opens \/ rename_ok
                               /\ budget' = [budget EXCEPT !.faults = @ - faults]
                               /\ IF ~r.success
                                  THEN /\ skipped_count' = skipped_count + 1
                                       /\ last' = Step("backfill", "render_failed", photo_path,
                                                       photo_path, 0, 0, location, gps_data)
                                       /\ UNCHANGED <<fs, pc, map_added_count>>
                                  ELSE IF rename_ok
                                  THEN /\ fs' = Rename([fs EXCEPT ![photo_path] = r.file],
                                                       photo_path, new_path)
                                       /\ map_added_count' = map_added_count + 1
                                       /\ last' = Step("backfill", "map_added", photo_path,
                                                       new_path, 0, 0, location, gps_data)
                                       /\ UNCHANGED <<pc, skipped_count>>
                                  ELSE \* photo_path.rename raises outside any try
                                       /\ fs' = [fs EXCEPT ![photo_path] = r.file]
                                       /\ pc' = "crashed"
                                       /\ last' = Step("backfill", "crashed", photo_path,
                                                       photo_path, 0, 0, location, gps_data)
                                       /\ UNCHANGED <<skipped_count, map_added_count>>

\* a fresh rename whose rendering raises into the except clause of line 1017:
\* the file is renamed, nothing is counted
StepFresh_RenderRaises ==
    /\ Stepping
    /\ ~BackfillApplies(flags, photo_path[2])
    /\ ~SkipApplies(flags, photo_path[2])
    /\ ~flags.dry_run /\ flags.add_watermark
    /\ get_datetime_from_exif(fs[photo_path]) # <<>>
    /\ budget.faults > 0
    /\ LET new == new_name(get_datetime_from_exif(fs[photo_path]), flags.separator,
                           counter, None, flags.add_map, fs[photo_path].gps,
                           PathSuffix(photo_path[2]))
           new_path == <<photo_path[1], new>>
       IN  /\ fs' = Rename(fs, photo_path, new_path)
           /\ last' = Step("fresh", "render_raised", photo_path, new_path, counter,
                           assigned[photo_path[1]], None, fs[photo_path].gps)
    /\ idx' = idx + 1
    /\ budget' = [budget EXCEPT !.faults = @ - 1]
    /\ UNCHANGED <<pc, flags, counter, photo_files, renamed_count, skipped_count,
                   map_added_count, geocode_cache, assigned, built, deleted,
                   cvars, avars, uvars>>

\* lines 962-1025
StepFresh ==
    /\ Stepping
    /\ ~BackfillApplies(flags, photo_path[2])
    /\ ~SkipApplies(flags, photo_path[2])
    /\ LET name == photo_path[2]
           file == fs[photo_path]
           datetime_str == get_datetime_from_exif(file)
           gps_data == file.gps
       IN  /\ idx' = idx + 1
           /\ UNCHANGED <<pc, flags, photo_files, skipped_count, map_added_count,
                          deleted, cvars, avars, uvars>>
           /\ IF datetime_str = <<>>
              THEN /\ last' = Step("fresh", "no_date", photo_path, photo_path, 0, 0,
                                   None, gps_data)
                   /\ UNCHANGED <<fs, counter, renamed_count, geocode_cache, assigned,
                                  built, budget>>
              ELSE \E lookup \in Lookups(geocode_cache, gps_data, flags.use_geocoding) :
                     LET geo == IF gps_data.some
                                THEN geocode_location(geocode_cache, gps_data,
                                                      flags.use_geocoding, lookup[2],
                                                      lookup[1])
                                ELSE [location |-> None, cache |-> geocode_cache]
                         location == geo.location
                         new == new_name(datetime_str, flags.separator, counter, location,
                                         flags.add_map, gps_data, PathSuffix(name))
                         new_path == <<photo_path[1], new>>
                     IN  /\ geocode_cache' = geo.cache
                         /\ IF flags.dry_run
                            THEN /\ renamed_count' = renamed_count + 1
                                 /\ counter' = counter + 1
                                 /\ last' = Step("fresh", "would_rename", photo_path,
                                                 new_path, counter, assigned[photo_path[1]],
                                                 location, gps_data)
                                 /\ UNCHANGED <<fs, assigned, built, budget>>
                            ELSE \E rename_ok \in BOOLEAN,
                                    world \in IF flags.add_watermark
                                              THEN WorldsFor(file, flags.add_map /\ gps_data.some)
                                              ELSE {CalmWorld} :
                                   LET moved == Rename(fs, photo_path, new_path)
                                       r == add_watermark_to_image(moved[new_path],
                                                datetime_str, location, gps_data,
                                                flags.add_map, FALSE, world)
                                       faults == WorldFaults(world)
                                                 + (IF rename_ok THEN 0 ELSE 1)
                                   IN  /\ faults <= budget.faults
                                       /\ budget' = [budget EXCEPT !.faults = @ - faults]
                                       /\ IF ~rename_ok
                                          THEN /\ world = CalmWorld
                                               /\ last' = Step("fresh", "rename_failed",
                                                               photo_path, photo_path, 0, 0,
                                                               location, gps_data)
                                               /\ UNCHANGED <<fs, counter, renamed_count,
                                                              assigned, built>>
                                          ELSE /\ fs' = IF flags.add_watermark
                                                        THEN [moved EXCEPT ![new_path] = r.file]
                                                        ELSE moved
                                               /\ renamed_count' = renamed_count + 1
                                               /\ counter' = counter + 1
                                               /\ assigned' =
                                                    [assigned EXCEPT ![photo_path[1]] =
                                                        Max2(@, counter)]
                                               /\ built' = IF flags.separator = "_"
                                                           THEN built \cup {new_path}
                                                           ELSE built
                                               /\ last' = Step("fresh", "renamed", photo_path,
                                                               new_path, counter,
                                                               assigned[photo_path[1]],
                                                               location, gps_data)

Finish_AlwaysCleans ==
    /\ pc = "running"
    /\ idx > Len(photo_files)
    /\ fs' = cleanup_macos_files(fs)
    /\ deleted' = deleted \cup (DOMAIN fs \ DOMAIN fs')
    /\ pc' = "done"
    /\ UNCHANGED <<flags, counter, photo_files, idx, renamed_count, skipped_count,
                   map_added_count, geocode_cache, last, assigned, built, budget, cvars, avars, uvars>>

\* lines 1027-1055: the cleanup and the summary
Finish ==
    /\ pc = "running"
    /\ idx > Len(photo_files)
    /\ fs' = IF flags.dry_run THEN fs ELSE cleanup_macos_files(fs)
    /\ deleted' = deleted \cup (DOMAIN fs \ DOMAIN fs')
    /\ pc' = "done"
    /\ UNCHANGED <<flags, counter, photo_files, idx, renamed_count, skipped_count,
                   map_added_count, geocode_cache, last, assigned, built, budget, cvars, avars, uvars>>

\* the process ends: nothing of the run is kept but the files
Exit ==
    /\ pc \in {"done", "crashed"}
    /\ pc' = "idle"
    /\ flags' = DefaultFlags /\ counter' = 0 /\ photo_files' = <<>> /\ idx' = 0
    /\ renamed_count' = 0 /\ skipped_count' = 0 /\ map_added_count' = 0
    /\ geocode_cache' = <<>> /\ last' = NoStep
    /\ UNCHANGED <<fs, assigned, built, deleted, budget, cvars, avars, uvars>>

\* a new photo is put into the tree between two runs
Arrive ==
    /\ pc = "idle"
    /\ budget.arrivals > 0
    /\ \E e \in ArrivalEntries :
          /\ e.path \notin DOMAIN fs
          /\ fs' = [p \in DOMAIN fs \cup {e.path} |-> IF p = e.path THEN e.file ELSE fs[p]]
    /\ budget' = [budget EXCEPT !.arrivals = @ - 1]
    /\ UNCHANGED <<pc, flags, counter, photo_files, idx, renamed_count, skipped_count,
                   map_added_count, geocode_cache, last, assigned, built, deleted, cvars, avars, uvars>>

InitialTrees ==
    {TreeOf(es) : es \in {x \in SUBSET InitialEntries : Cardinality(x) <= MaxInitFiles}}

\* one run over a tree that holds any of the initial files
Init == CodecQuiet /\ AllocQuiet /\ UnitQuiet /\ PipeInit(InitialTrees, 1, MaxFaults, 0)

Next == StartRun \/ StepSkip \/ StepBackfill \/ StepFresh \/ Finish \/ Exit

Spec == Init /\ [][Next]_vars

\* runs one after the other over a tree of unprocessed photos, with arrivals
FreshTrees ==
    { TreeOf({Entry(TOP, IMG(1) \o JPG, File(1, Ts14, Ts14, GrazGps, 0))}),
      TreeOf({Entry(TOP, IMG(2) \o JPG, File(2, <<>>, Ts14b, None, 0)),
              Entry(SUB, IMG(7) \o JPG, File(11, Ts14, Ts14, GrazGps, 0))}) }

InitRuns == CodecQuiet /\ AllocQuiet /\ UnitQuiet /\ PipeInit(FreshTrees, MaxRuns, 0, 0)

NextRuns == Next \/ Arrive

SpecRuns == InitRuns /\ [][NextRuns]_vars

----------------------------------------------------------------------------
(* A run that is terminated from outside and run again *)

\* the process is terminated between two files of the loop
Kill ==
    /\ Stepping
    /\ idx > 1
    /\ budget.kills > 0
    /\ pc' = "killed"
    /\ budget' = [budget EXCEPT !.kills = @ - 1]
    /\ UNCHANGED <<fs, flags, counter, photo_files, idx, renamed_count, skipped_count,
                   map_added_count, geocode_cache, last, assigned, built, deleted, cvars, avars, uvars>>

\* the process is terminated between photo_path.rename (line 1001) and
\* add_watermark_to_image (line 1007) of a fresh rename
KillAfterRename ==
    /\ Stepping
    /\ budget.kills > 0
    /\ ~BackfillApplies(flags, photo_path[2])
    /\ ~SkipApplies(flags, photo_path[2])
    /\ ~flags.dry_run /\ flags.add_watermark
    /\ LET file == fs[photo_path]
           datetime_str == get_datetime_from_exif(file)
           gps_data == file.gps
       IN  /\ datetime_str # <<>>
           /\ \E lookup \in Lookups(geocode_cache, gps_data, flags.use_geocoding) :
                 LET geo == IF gps_data.some
                            THEN geocode_location(geocode_cache, gps_data,
                                                  flags.use_geocoding, lookup[2], lookup[1])
                            ELSE [location |-> None, cache |-> geocode_cache]
                     new_path == <<photo_path[1],
                                   new_name(datetime_str, flags.separator, counter,
                                            geo.location, flags.add_map, gps_data,
                                            PathSuffix(photo_path[2]))>>
                 IN  /\ geocode_cache' = geo.cache
                     /\ fs' = Rename(fs, photo_path, new_path)
                     /\ assigned' = [assigned EXCEPT ![photo_path[1]] = Max2(@, counter)]
                     /\ built' = IF flags.separator = "_" THEN built \cup {new_path}
                                 ELSE built
                     /\ last' = Step("fresh", "killed", photo_path, new_path, counter,
                                     assigned[photo_path[1]], geo.location, gps_data)
    /\ pc' = "killed"
    /\ budget' = [budget EXCEPT !.kills = @ - 1]
    /\ UNCHANGED <<flags, counter, photo_files, idx, renamed_count, skipped_count,
                   map_added_count, deleted, cvars, avars, uvars>>

\* the tool is run again with the same arguments on the same directory
Resume ==
    /\ pc = "killed"
    /\ Start(flags)
    /\ UNCHANGED budget

\* the photos a terminated run starts from
ResumeTrees ==
    { TreeOf({Entry(TOP, IMG(1) \o JPG, File(1, Ts14, Ts14, GrazGps, 0)),
              Entry(TOP, IMG(2) \o JPG, File(2, <<>>, Ts14b, None, 0))}),
      TreeOf({Entry(TOP, IMG(2) \o JPG, File(2, <<>>, Ts14b, None, 0)),
              Entry(SUB, IMG(7) \o JPG, File(11, Ts14, Ts14, GrazGps, 0)),
              Entry(SUB, IMG(9) \o JPG, File(14, <<>>, Ts14b, None, 0))}) }

InitResume == CodecQuiet /\ AllocQuiet /\ UnitQuiet /\ PipeInit(ResumeTrees, 1, 0, MaxKills)

NextResume == Next \/ Kill \/ KillAfterRename \/ Resume

SpecResume == InitResume /\ [][NextResume]_vars

----------------------------------------------------------------------------
(* Codec run: a name is built as a fresh rename builds it, then tagged as the
   map backfill tags it *)

CodecInit == CodecQuiet /\ AllocQuiet /\ UnitQuiet /\ PipeQuiet

CodecBuild ==
    /\ cStage = "none"
    /\ \E datetime_str \in CodecTimestamps, count \in CodecSequences,
          separator \in Separators, location \in CodecLocations \cup {None},
          add_map \in BOOLEAN :
          /\ cIn' = [some |-> TRUE, datetime_str |-> datetime_str, counter |-> count,
                     separator |-> separator, location |-> location,
                     map |-> (add_map /\ location.some)]
          /\ cName' = new_name(datetime_str, separator, count, location, add_map,
                               IF location.some THEN Coordinates(0, 0) ELSE None, JPG)
    /\ cStage' = "built"
    /\ UNCHANGED <<avars, pvars, uvars>>

CodecBackfill ==
    /\ cStage = "built"
    /\ is_already_processed(cName)
    /\ ~has_map_tag(cName)
    /\ cName' = map_name(cName)
    /\ cIn' = [cIn EXCEPT !.map = TRUE]
    /\ cStage' = "tagged"
    /\ UNCHANGED <<avars, pvars, uvars>>

CodecNext == CodecBuild \/ CodecBackfill

SpecCodec == CodecInit /\ [][CodecNext]_vars

----------------------------------------------------------------------------
(* Allocator run: _get_start_counter over one directory *)

AllocInit ==
    /\ CodecQuiet
    /\ UnitQuiet
    /\ PipeQuiet
    /\ aStage = "listed"
    /\ aDir \in {d \in SUBSET NamePool : Cardinality(d) <= MaxDirFiles}
    /\ aResult = 0

Allocate ==
    /\ aStage = "listed"
    /\ aResult' = _get_start_counter(aDir)
    /\ aStage' = "allocated"
    /\ UNCHANGED <<aDir, cvars, pvars, uvars>>

AllocNext == Allocate

SpecAlloc == AllocInit /\ [][AllocNext]_vars

----------------------------------------------------------------------------
(* GPS extraction run: get_gps_data over one EXIF block, then the name the
   fresh rename builds for that file *)

\* the outcome of a call: a value it returns, or an exception that leaves it
Returned(value) == [raised |-> FALSE, value |-> value]

Raised == [raised |-> TRUE, value |-> None]

\* a component of a GPS field: a rational (IFDRational), or a value that is
\* no number
Rational(num, den) == [kind |-> "rational", num |-> num, den |-> den]

NoNumber == [kind |-> "text", num |-> 0, den |-> 1]

\* the float "not a number" as f'{lat:.5f}' prints it
NAN == <<"n", "a", "n">>

\* a coordinate pair of which one or both are not a number (an IFDRational
\* with denominator 0 is nan, and nan goes through the arithmetic)
NaNCoordinates(lat, lon) ==
    [some |-> TRUE, lat_nan |-> lat.nan, lon_nan |-> lon.nan,
     latitude |-> lat.value, longitude |-> lon.value]

IsNaN(gps) == gps.some /\ "lat_nan" \in DOMAIN gps

SecondsPerDegree == 3600

\* d + (m / 60.0) + (s / 3600.0), in 1/Scale5 of a degree (summed in tenths
\* of that unit, then rounded)
Degrees(d, m, s) ==
    LET fine == Scale5 * 10
        sum == (d.num * fine) \div d.den
               + (m.num * fine) \div (m.den * 60)
               + (s.num * fine) \div (s.den * SecondsPerDegree)
    IN  (sum + 5) \div 10

\* convert_to_degrees: "d, m, s = value" raises for a value that has not
\* three components, the arithmetic raises for a component that is no number
convert_to_degrees(value) ==
    IF Len(value) # 3 THEN [raised |-> TRUE, nan |-> FALSE, value |-> 0]
    ELSE IF \E i \in 1..3 : value[i].kind # "rational"
    THEN [raised |-> TRUE, nan |-> FALSE, value |-> 0]
    ELSE IF \E i \in 1..3 : value[i].den = 0
    THEN [raised |-> FALSE, nan |-> TRUE, value |-> 0]
    ELSE [raised |-> FALSE, nan |-> FALSE,
          value |-> Degrees(value[1], value[2], value[3])]

GPSLatitude == "GPSLatitude"
GPSLatitudeRef == "GPSLatitudeRef"
GPSLongitude == "GPSLongitude"
GPSLongitudeRef == "GPSLongitudeRef"
GpsFields == {GPSLatitude, GPSLatitudeRef, GPSLongitude, GPSLongitudeRef}

\* an EXIF block: gps_info says whether it has the key 'GPSInfo' and whether
\* its value is a dictionary; present are the fields that dictionary has
Exif(gps_info, present, lat, lat_ref, lon, lon_ref) ==
    [some |-> TRUE, gps_info |-> gps_info, present |-> present,
     lat |-> lat, lat_ref |-> lat_ref, lon |-> lon, lon_ref |-> lon_ref]

\* get_gps_data: only KeyError is caught
get_gps_data(exif) ==
    IF exif.gps_info = "absent" THEN Returned(None)
    ELSE IF exif.gps_info # "dict" THEN Raised
    ELSE IF GPSLatitude \notin exif.present THEN Returned(None)
    ELSE LET lat == convert_to_degrees(exif.lat)
         IN  IF lat.raised THEN Raised
             ELSE IF GPSLatitudeRef \notin exif.present THEN Returned(None)
             ELSE IF GPSLongitude \notin exif.present THEN Returned(None)
             ELSE LET lon == convert_to_degrees(exif.lon)
                  IN  IF lon.raised THEN Raised
                      ELSE IF GPSLongitudeRef \notin exif.present THEN Returned(None)
                      ELSE IF lat.nan \/ lon.nan THEN Returned(NaNCoordinates(lat, lon))
                      ELSE Returned(Coordinates(
                               IF exif.lat_ref = "S" THEN 0 - lat.value ELSE lat.value,
                               IF exif.lon_ref = "W" THEN 0 - lon.value ELSE lon.value))

GoodLatitude == <<Rational(47, 1), Rational(4, 1), Rational(363, 25)>>
GoodLongitude == <<Rational(15, 1), Rational(26, 1), Rational(111, 5)>>

LatitudeValues ==
    { GoodLatitude,
      <<Rational(47, 1), Rational(4, 1)>>,
      <<Rational(47, 1), NoNumber, Rational(363, 25)>>,
      <<Rational(47, 1), Rational(4, 1), Rational(363, 0)>> }

LongitudeValues ==
    { GoodLongitude,
      <<Rational(15, 1), Rational(26, 1), Rational(111, 5), Rational(0, 1)>>,
      <<NoNumber, Rational(26, 1), Rational(111, 5)>>,
      <<Rational(15, 0), Rational(26, 1), Rational(111, 5)>> }

ExifBlocks ==
    { Exif(gps_info, {}, GoodLatitude, "N", GoodLongitude, "E") :
        gps_info \in {"absent", "int"} }
    \cup
    { Exif("dict", present, lat, lat_ref, lon, lon_ref) :
        present \in SUBSET GpsFields, lat \in LatitudeValues, lat_ref \in {"N", "S"},
        lon \in LongitudeValues, lon_ref \in {"E", "W"} }

GpsInit ==
    /\ CodecQuiet /\ AllocQuiet /\ PipeQuiet
    /\ uStage = "exif"
    /\ uIn \in ExifBlocks
    /\ uOut = None

\* line 974
ExtractGps ==
    /\ uStage = "exif"
    /\ uOut' = get_gps_data(uIn)
    /\ uStage' = IF uOut'.raised THEN "crashed" ELSE "extracted"
    /\ UNCHANGED <<uIn, cvars, avars, pvars>>

\* lines 975-994, for a file with date Ts14 in a run with the default
\* arguments whose counter is 1; no provider has an answer for a coordinate
\* that is no number
BuildAfterGps ==
    /\ uStage = "extracted"
    /\ LET gps_data == uOut.value
           location == IF ~gps_data.some THEN None
                       ELSE IF IsNaN(gps_data)
                       THEN Location(
                                IF gps_data.lat_nan THEN NAN ELSE Fmt5f(gps_data.latitude),
                                IF gps_data.lon_nan THEN NAN ELSE Fmt5f(gps_data.longitude))
                       ELSE ProviderLocation(gps_data)
       IN  uOut' = [raised |-> FALSE, value |-> gps_data,
                    name |-> new_name(Ts14, "_", 1, location, FALSE, gps_data, JPG)]
    /\ uStage' = "named"
    /\ UNCHANGED <<uIn, cvars, avars, pvars>>

GpsNext == ExtractGps \/ BuildAfterGps

SpecGps == GpsInit /\ [][GpsNext]_vars

----------------------------------------------------------------------------
(* The location resolver: one renamer answering several lookups *)

\* how many lookups one renamer answers
MaxLookups == 3

\* two coordinates that share a four-decimal key with GrazGps's, one that
\* does not
ResolverCoordinates ==
    {GrazGps, Coordinates(4707072, 1543948), Coordinates(4707080, 1543950)}

GrazStadt == Location(<<"G", "r", "a", "z", "-", "S", "t", "a", "d", "t">>, <<"A", "T">>)
Styria == Location(<<"S", "t", "y", "r", "i", "a">>, <<"A", "T">>)

\* what Nominatim, LocationIQ and BigDataCloud would answer to one lookup
\* (None: the provider fails)
ResolverAnswers == {None, Graz} \X {None, GrazStadt} \X {None, Styria}

\* what the search would answer to one forward lookup
SearchAnswers == {None, GrazGps}

ReverseRequest(gps, answers) == [kind |-> "reverse", gps |-> gps, answers |-> answers]

ForwardRequest(city, country_code, answer) ==
    [kind |-> "forward", city |-> city, country_code |-> country_code, answer |-> answer]

\* self.geocode_cache[cache_key] = result
CachePut(cache, cache_key, result) ==
    [k \in DOMAIN cache \cup {cache_key} |-> IF k = cache_key THEN result ELSE cache[k]]

\* the coordinate as :.4f shows it: its sign, and its size in units of
\* 0.0001 degree, rounded
Round4(v) == [negative |-> v < 0, size |-> (Abs(v) + 5) \div 10]

Rounded(gps) == <<Round4(gps.latitude), Round4(gps.longitude)>>

\* the renamer: api_key and use_geocoding are the constructor's, cache is
\* geocode_cache; calls lists the providers the lookup in hand has called,
\* result is what it returned; resolved and found are history: what a provider
\* answered first for a rounded coordinate, and the search for a place
Resolver(api_key, use_geocoding) ==
    [api_key |-> api_key, use_geocoding |-> use_geocoding, cache |-> <<>>,
     calls |-> <<>>, result |-> None, left |-> MaxLookups,
     resolved |-> <<>>, found |-> <<>>]

ResolverInit ==
    /\ CodecQuiet /\ AllocQuiet /\ PipeQuiet
    /\ uStage = "ready"
    /\ uIn = None
    /\ uOut \in {Resolver(k, g) : k \in BOOLEAN, g \in BOOLEAN}

\* a provider answered: cache and return
CacheAndReturn(provider, result) ==
    /\ uStage' = "returned"
    /\ uOut' = [uOut EXCEPT !.calls = Append(@, provider),
                            !.result = result,
                            !.cache = CachePut(@, ReverseKey(uIn.gps), result),
                            !.resolved = IF Rounded(uIn.gps) \in DOMAIN @ THEN @
                                         ELSE CachePut(@, Rounded(uIn.gps), result)]

\* a provider failed: on to the next
Fallthrough(provider, next) ==
    /\ uStage' = next
    /\ uOut' = [uOut EXCEPT !.calls = Append(@, provider)]

AfterNominatim_AlwaysKeyed(api_key) == "locationiq"

\* line 151: LocationIQ only with an API key
AfterNominatim(api_key) == IF api_key THEN "locationiq" ELSE "bigdatacloud"

\* geocode_location, lines 135-139: geocoding off, the cache, or on to Nominatim
EnterReverse ==
    /\ uStage \in {"ready", "returned"}
    /\ uOut.left > 0
    /\ \E gps \in ResolverCoordinates, answers \in ResolverAnswers :
          LET cache_key == ReverseKey(gps)
              fresh == [uOut EXCEPT !.left = @ - 1, !.calls = <<>>, !.result = None]
          IN  /\ uIn' = ReverseRequest(gps, answers)
              /\ IF ~uOut.use_geocoding
                 THEN uStage' = "returned" /\ uOut' = fresh
                 ELSE IF cache_key \in DOMAIN uOut.cache
                 THEN /\ uStage' = "returned"
                      /\ uOut' = [fresh EXCEPT !.result = uOut.cache[cache_key]]
                 ELSE uStage' = "nominatim" /\ uOut' = fresh
    /\ UNCHANGED <<cvars, avars, pvars>>

\* lines 141-147
TryNominatim ==
    /\ uStage = "nominatim"
    /\ IF uIn.answers[1].some
       THEN CacheAndReturn("nominatim", uIn.answers[1])
       ELSE Fallthrough("nominatim", AfterNominatim(uOut.api_key))
    /\ UNCHANGED <<uIn, cvars, avars, pvars>>

\* lines 150-156
TryLocationIQ ==
    /\ uStage = "locationiq"
    /\ IF uIn.answers[2].some
       THEN CacheAndReturn("locationiq", uIn.answers[2])
       ELSE Fallthrough("locationiq", "bigdatacloud")
    /\ UNCHANGED <<uIn, cvars, avars, pvars>>

\* lines 158-170: the last provider, else the coordinates, which are not cached
TryBigDataCloud ==
    /\ uStage = "bigdatacloud"
    /\ IF uIn.answers[3].some
       THEN CacheAndReturn("bigdatacloud", uIn.answers[3])
       ELSE /\ uStage' = "returned"
            /\ uOut' = [uOut EXCEPT !.calls = Append(@, "bigdatacloud"),
                                    !.result = PseudoLocation(uIn.gps)]
    /\ UNCHANGED <<uIn, cvars, avars, pvars>>

\* forward_geocode, lines 101-103: the cache, or on to the search
EnterForward ==
    /\ uStage \in {"ready", "returned"}
    /\ uOut.left > 0
    /\ \E place \in {Graz}, answer \in SearchAnswers :
          LET cache_key == ForwardKey(place.city, place.country_code)
              fresh == [uOut EXCEPT !.left = @ - 1, !.calls = <<>>, !.result = None]
          IN  /\ uIn' = ForwardRequest(place.city, place.country_code, answer)
              /\ IF cache_key \in DOMAIN uOut.cache
                 THEN /\ uStage' = "returned"
                      /\ uOut' = [fresh EXCEPT !.result = uOut.cache[cache_key]]
                 ELSE uStage' = "search" /\ uOut' = fresh
    /\ UNCHANGED <<cvars, avars, pvars>>

\* forward_geocode, lines 105-128
Search ==
    /\ uStage = "search"
    /\ uStage' = "returned"
    /\ uOut' = IF uIn.answer.some
               THEN [uOut EXCEPT
                        !.calls = Append(@, "search"),
                        !.result = uIn.answer,
                        !.cache = CachePut(@, ForwardKey(uIn.city, uIn.country_code),
                                           uIn.answer),
                        !.found = CachePut(@, <<uIn.city, uIn.country_code>>, uIn.answer)]
               ELSE [uOut EXCEPT !.calls = Append(@, "search"), !.result = None]
    /\ UNCHANGED <<uIn, cvars, avars, pvars>>

ResolverNext ==
    \/ EnterReverse
    \/ TryNominatim
    \/ TryLocationIQ
    \/ TryBigDataCloud
    \/ EnterForward
    \/ Search

SpecResolver == ResolverInit /\ [][ResolverNext]_vars

\* every call returns: requests.get is given timeout=10
SpecResolverLive == SpecResolver /\ WF_vars(ResolverNext)

----------------------------------------------------------------------------
(* The locality a provider's address record gives *)

\* a field of the address record: None when the key is missing, else its text
Text(s) == [some |-> TRUE, text |-> s]

\* Python's truth of address.get(field): a missing key and '' are false
Truthy(field) == field.some /\ field.text # <<>>

UNKNOWN == <<"U", "n", "k", "n", "o", "w", "n">>

\* address.get('county', 'Unknown')
CountyOrUnknown(address) ==
    IF address.county.some THEN address.county.text ELSE UNKNOWN

\* _try_nominatim, lines 189-193
NominatimLocality(address) ==
    IF Truthy(address.city) THEN address.city.text
    ELSE IF Truthy(address.town) THEN address.town.text
    ELSE IF Truthy(address.village) THEN address.village.text
    ELSE IF Truthy(address.municipality) THEN address.municipality.text
    ELSE CountyOrUnknown(address)

\* _try_locationiq, lines 222-225
LocationIQLocality(address) ==
    IF Truthy(address.city) THEN address.city.text
    ELSE IF Truthy(address.town) THEN address.town.text
    ELSE IF Truthy(address.village) THEN address.village.text
    ELSE CountyOrUnknown(address)

\* the address records of a response: every field missing, empty or set
Addresses ==
    [city : {None, Text(<<>>), Text(<<"G", "r", "a", "z">>)},
     town : {None, Text(<<>>), Text(<<"G", "r", "a", "t", "k", "o", "r", "n">>)},
     village : {None, Text(<<>>), Text(<<"S", "t", "a", "t", "t", "e", "g", "g">>)},
     municipality : {None, Text(<<>>), Text(<<"T", "h", "a", "l">>)},
     county : {None, Text(<<>>), Text(<<"L", "e", "i", "b", "n", "i", "t", "z">>)}]

LocalityInit ==
    /\ CodecQuiet /\ AllocQuiet /\ PipeQuiet
    /\ uStage = "address"
    /\ uIn \in Addresses
    /\ uOut = None

\* both providers answer with the same address record
PickLocality ==
    /\ uStage = "address"
    /\ uStage' = "picked"
    /\ uOut' = [nominatim |-> NominatimLocality(uIn), locationiq |-> LocationIQLocality(uIn)]
    /\ UNCHANGED <<uIn, cvars, avars, pvars>>

LocalityNext == PickLocality

SpecLocality == LocalityInit /\ [][LocalityNext]_vars

----------------------------------------------------------------------------
(* Claims about the codec and the allocator *)

\* The grammar's StructuredName prefix under a separator: 12 to 14 digits, the
\* separator, exactly four digits.
StructuredPrefix(name, separator) ==
    \E n \in 12..14 :
        /\ Len(name) >= n + 5
        /\ \A i \in 1..n : name[i] \in Digit
        /\ name[n + 1] = separator
        /\ \A i \in (n + 2)..(n + 5) : name[i] \in Digit
        /\ (Len(name) > n + 5 => name[n + 6] \notin Digit)

\* C2: for every name and every configured separator, isProcessed(name) is
\* true if and only if the name starts with 12 to 14 digits, that run's
\* separator and exactly 4 digits; so it is true of every name the tool built
\* under that separator.
C2_ProcessedIffStructuredPrefix ==
    cStage # "none" =>
        (is_already_processed(cName) <=> StructuredPrefix(cName, cIn.separator))

\* The sequence value a directory scan finds in a name that carries the
\* pattern: the four digits that follow the timestamp and the separator.
SequenceFound(name) ==
    LET t == datetime_from_name(name)
    IN  StrToInt(SubSeq(name, Len(t) + 2, Len(t) + 5))

\* C4: allocateStartingCounter returns 1 plus the maximum sequence value
\* found among all files of the directory whose name carries the sequence
\* pattern (photo or not), and 1 when no file carries it.  The pattern is the
\* one of the processed test (default separator); the value found is the
\* four-digit group after the separator.
C4_StartIsMaxPlusOne ==
    aStage = "allocated" =>
        LET carriers == {f \in aDir : is_already_processed(f)}
        IN  IF carriers = {} THEN aResult = 1
            ELSE /\ \E f \in carriers : aResult = SequenceFound(f) + 1
                 /\ \A f \in carriers : aResult > SequenceFound(f)

C4_Witness ==
    /\ aStage = "allocated"
    /\ Ts14 \o <<"_">> \o Fmt04d(9) \o TXT \in aDir
    /\ Ts12 \o <<"_">> \o Fmt04d(7) \o JPG \in aDir
    /\ aResult = 10

Dir8 ==
    { Ts8 \o <<"_", "0", "0", "0", "3", "_", "G", "r", "a", "z", "_", "A", "T">> \o JPG,
      Ts8 \o <<"_", "0", "0", "0", "7">> \o JPG }

Dir12 ==
    { Ts12 \o <<"_", "0", "0", "0", "3", "_", "G", "r", "a", "z", "_", "A", "T">> \o JPG,
      Ts12 \o <<"_", "0", "0", "0", "7">> \o JPG }

\* C5 as stated: over a directory containing exactly 20240101_0003_Graz_AT.jpg
\* and 20240101_0007.jpg (8-digit date prefixes) the allocator returns 8.
C5_EightDigitPrefixCounted ==
    (aStage = "allocated" /\ aDir = Dir8) => aResult = 8

\* C5 amended: names whose leading digit run is only 8 digits long are not
\* counted, so over that directory the allocator returns 1; over the same two
\* names with a 12-digit prefix it returns 8.
C5_EightDigitPrefixIgnored ==
    aStage = "allocated" =>
        /\ (aDir # {} /\ aDir \subseteq Dir8) => aResult = 1
        /\ aDir = Dir12 => aResult = 8

C5_Witness == aStage = "allocated" /\ aDir = Dir8 /\ aResult = 1

\* C9: round trip without location: for every 12 to 14 digit timestamp T,
\* sequence S in 0..9999 and separator SEP, the name built from
\* (T, S, SEP, no location, no map tag) parses back to processed = true,
\* timestamp T, sequence S, no location, map tag false.
C9_RoundTripNoLocation ==
    (cStage = "built" /\ ~cIn.location.some) =>
        /\ is_already_processed(cName)
        /\ datetime_from_name(cName) = cIn.datetime_str
        /\ CounterPattern(cName)
        /\ StrToInt(CounterGroup(cName)) = cIn.counter
        /\ location_from_name(cName) = None
        /\ ~has_map_tag(cName)

\* C10: round trip with location: for every T, S, SEP and location
\* L = {sanitized city, 2-uppercase-letter country code}, the name built from
\* (T, S, SEP, L, map tag true) parses back to city and country code of L and
\* map tag true.
C10_RoundTripLocation ==
    (cStage # "none" /\ cIn.location.some /\ cIn.map) =>
        /\ location_from_name(cName) = cIn.location
        /\ has_map_tag(cName)

\* The two round trips restricted to the separator the parsers were written for.
RoundTripsUnderscore ==
    (cStage # "none" /\ cIn.separator = "_") =>
        /\ is_already_processed(cName)
        /\ datetime_from_name(cName) = cIn.datetime_str
        /\ StrToInt(CounterGroup(cName)) = cIn.counter
        /\ location_from_name(cName) = cIn.location
        /\ has_map_tag(cName) = cIn.map
        /\ StructuredPrefix(cName, "_")

----------------------------------------------------------------------------
(* Claims about the pipeline *)

\* The run in progress scans a directory whose photos were all given their
\* names by fresh renames under the default separator, and it runs with the
\* default separator and the default skip-processed behaviour.
RerunOfFreshRenamed ==
    /\ pc \in {"running", "done"}
    /\ photo_files # <<>>
    /\ flags.separator = "_"
    /\ flags.skip_processed
    /\ \A i \in 1..Len(photo_files) : photo_files[i] \in built

MapBackfillRequested == flags.reprocess_map /\ flags.add_map

AllSkipped ==
    /\ renamed_count = 0
    /\ map_added_count = 0
    /\ skipped_count = Len(photo_files)

PhotosKept ==
    \A i \in 1..Len(photo_files) :
        /\ photo_files[i] \in DOMAIN fs'
        /\ fs'[photo_files[i]] = fs[photo_files[i]]

\* C1 as stated: with the default separator and the default skip-processed
\* behaviour, a run over a directory whose photos were fresh-renamed by an
\* earlier run renames no file, changes no file content and reports skipped
\* equal to the number of photos found; every name a fresh rename produces
\* satisfies isProcessed.
C1_RerunIdempotent ==
    /\ [](\A p \in built : is_already_processed(p[2]))
    /\ []((RerunOfFreshRenamed /\ pc = "done") => AllSkipped)
    /\ [][(RerunOfFreshRenamed /\ pc = "running") => PhotosKept]_vars

\* C1 amended: the same, for a rerun that does not request the map backfill
\* (reprocess-map and map not both on).
C1_RerunWithoutBackfillIdempotent ==
    /\ [](\A p \in built : is_already_processed(p[2]))
    /\ []((RerunOfFreshRenamed /\ ~MapBackfillRequested /\ pc = "done") => AllSkipped)
    /\ [][(RerunOfFreshRenamed /\ ~MapBackfillRequested /\ pc = "running")
            => PhotosKept]_vars

C1_Witness ==
    /\ pc = "done"
    /\ RerunOfFreshRenamed
    /\ ~MapBackfillRequested
    /\ skipped_count = 2
    /\ \E i, j \in 1..Len(photo_files) :
          /\ location_from_name(photo_files[i][2]) = None
          /\ location_from_name(photo_files[j][2]) = Graz
    /\ \A i \in 1..Len(photo_files) : photo_files[i] \in DOMAIN fs

\* C3: after any sequence of runs over a directory tree (any flags, recursive
\* or not, any separator, photos arriving between runs) no two structured
\* names in the same directory carry the same sequence number, and every
\* sequence number a run assigns is greater than or equal to every sequence
\* number assigned earlier in that directory.
C3_UniqueAndMonotone ==
    /\ \A p, q \in DOMAIN fs :
          (p # q /\ p[1] = q[1] /\ SequenceOfName(p[2]) > 0)
              => SequenceOfName(p[2]) # SequenceOfName(q[2])
    /\ (last.act = "fresh" /\ last.outcome = "renamed") => last.seq >= last.prev

FreshRenamed == idx' = idx + 1 /\ last'.act = "fresh" /\ last'.outcome = "renamed"

\* C6: at every point of a non-dry run the counter is the allocator's
\* starting value plus the number of files fresh-renamed so far: it starts at
\* the allocator's value, a step advances it by one exactly when it fresh-
\* renames a file (not on a skip, a map backfill, a file without date or a
\* failed rename), and the file renamed gets the counter's value as its
\* sequence number.
C6_CounterTracksRenames ==
    /\ []((pc = "running" /\ idx = 1) =>
            /\ counter = _get_start_counter(FileNames(fs, TOP))
            /\ renamed_count = 0)
    /\ [][(pc = "running" /\ ~flags.dry_run) =>
            /\ counter' - renamed_count' = counter - renamed_count
            /\ IF FreshRenamed
               THEN /\ counter' = counter + 1
                    /\ last'.new_path \in DOMAIN fs'
                    /\ SequenceOfName(last'.new_path[2]) = counter
               ELSE counter' = counter]_vars

C6_Witness ==
    /\ pc = "done"
    /\ ~flags.dry_run
    /\ skipped_count = 1
    /\ renamed_count = 1
    /\ counter = 5
    /\ last.outcome = "renamed" /\ last.seq = 4

ProcessedWithMapTag ==
    Stepping /\ is_already_processed(photo_path[2]) /\ has_map_tag(photo_path[2])

SkipTaken ==
    /\ last'.act = "skip"
    /\ fs' = fs
    /\ counter' = counter
    /\ skipped_count' = skipped_count + 1
    /\ renamed_count' = renamed_count
    /\ map_added_count' = map_added_count

OneActionTaken ==
    /\ idx' = idx + 1
    /\ last'.path = photo_path
    /\ last'.act \in {"skip", "backfill", "fresh"}

\* C7 as stated: a file whose name is processed and carries the map tag is
\* skipped (no rename, no pixel write, no sequence number consumed) under
\* every combination of run flags, skip-processed enabled or disabled;
\* exactly one action is taken per file.
C7_TaggedAlwaysSkipped ==
    [][(Stepping => OneActionTaken) /\ (ProcessedWithMapTag => SkipTaken)]_vars

\* C7 amended: such a file is skipped under every combination of run flags
\* that has skip-processed enabled; with skip-processed disabled it is
\* handled as a fresh rename; exactly one action is taken per file.
C7_TaggedSkippedUnlessNoSkip ==
    [][/\ Stepping => OneActionTaken
       /\ (ProcessedWithMapTag /\ flags.skip_processed) => SkipTaken
       /\ (ProcessedWithMapTag /\ ~flags.skip_processed) => last'.act = "fresh"]_vars

C7_Witness ==
    /\ last.act = "skip"
    /\ has_map_tag(last.path[2])
    /\ flags.reprocess_map /\ flags.add_map /\ flags.add_watermark
    /\ flags.skip_processed
    /\ skipped_count = 1

BackfillCase ==
    /\ Stepping
    /\ is_already_processed(photo_path[2])
    /\ ~has_map_tag(photo_path[2])
    /\ flags.reprocess_map /\ flags.add_map

TaggedPath ==
    <<photo_path[1],
      PathStem(photo_path[2]) \o <<"_", "M", "A", "P">> \o PathSuffix(photo_path[2])>>

\* C8: map backfill on a processed name without map tag, reprocess-map and
\* map both requested: the GPS is the embedded one, else the one forward
\* geocoding gives for the location parsed from the name; without GPS the
\* file's name and content are unchanged and skipped is incremented; with GPS
\* and a rendering that succeeds (in a run that is not dry and whose rename
\* does not raise) the file is renamed to stem + map suffix + extension, its
\* timestamp, sequence and location fields unchanged, and maps-added is
\* incremented.
C8_MapBackfill ==
    [][BackfillCase =>
        LET name == photo_path[2]
            file == fs[photo_path]
            parsed == location_from_name(name)
        IN  /\ last'.act = "backfill"
            /\ file.gps.some => last'.gps = file.gps
            /\ (~file.gps.some /\ ~parsed.some) => last'.gps = None
            /\ (~file.gps.some /\ parsed.some) =>
                  last'.gps \in {None, PlaceCoordinates(parsed.city, parsed.country_code)}
            /\ ~last'.gps.some =>
                  /\ fs' = fs
                  /\ skipped_count' = skipped_count + 1
                  /\ map_added_count' = map_added_count
            /\ (/\ last'.gps.some
                /\ ~flags.dry_run
                /\ last'.outcome \notin {"render_failed", "crashed"}) =>
                  /\ photo_path \notin DOMAIN fs'
                  /\ TaggedPath \in DOMAIN fs'
                  /\ fs'[TaggedPath].id = file.id
                  /\ fs'[TaggedPath].saves = file.saves + 1
                  /\ datetime_from_name(TaggedPath[2]) = datetime_from_name(name)
                  /\ CounterGroup(TaggedPath[2]) = CounterGroup(name)
                  /\ location_from_name(TaggedPath[2]) = parsed
                  /\ has_map_tag(TaggedPath[2])
                  /\ map_added_count' = map_added_count + 1
                  /\ skipped_count' = skipped_count]_vars

C8_Witness ==
    /\ last.act = "backfill"
    /\ last.outcome = "map_added"
    /\ last.path[2] = StructuredName(Ts14b, 4, Graz, FALSE, JPG)
    /\ last.gps = GrazGps
    /\ last.path \notin DOMAIN fs
    /\ last.new_path \in DOMAIN fs
    /\ fs[last.new_path].maps = 1
    /\ map_added_count = 1

\* C11: a dry run leaves the directory tree exactly as it found it for every
\* flag combination (no rename, no watermark or map written, no metadata
\* artifact deleted), while counter and tallies advance file by file: the
\* counter stays the allocator's value over the (unchanged) directory plus the
\* number of would-be renames, and each would-be name carries the counter's
\* value, as the name of a real rename does.
C11_DryRunChangesNothing ==
    /\ []((pc \in {"running", "done"} /\ flags.dry_run /\ photo_files # <<>>) =>
            counter = _get_start_counter(FileNames(fs, TOP)) + renamed_count)
    /\ [][(pc = "running" /\ flags.dry_run) =>
            /\ fs' = fs
            /\ Stepping =>
                  /\ idx' = idx + 1
                  /\ (renamed_count' + skipped_count' + map_added_count')
                        \in {renamed_count + skipped_count + map_added_count,
                             renamed_count + skipped_count + map_added_count + 1}
                  /\ last'.act = "fresh" =>
                        \/ last'.outcome = "no_date" /\ counter' = counter
                        \/ /\ last'.outcome = "would_rename"
                           /\ SequenceOfName(last'.new_path[2]) = counter
                           /\ last'.new_path[1] = photo_path[1]
                           /\ counter' = counter + 1
                           /\ renamed_count' = renamed_count + 1
                  /\ last'.act = "backfill" =>
                        /\ last'.outcome \in {"no_gps", "would_add"}
                        /\ counter' = counter
                        /\ last'.outcome = "would_add" =>
                              map_added_count' = map_added_count + 1
                  /\ last'.act = "skip" =>
                        counter' = counter /\ skipped_count' = skipped_count + 1]_vars

C11_Witness ==
    /\ pc = "done"
    /\ flags.dry_run /\ flags.add_watermark /\ flags.add_map
    /\ renamed_count = 1
    /\ counter = 2
    /\ last.outcome = "would_rename"
    /\ <<TOP, DS_STORE>> \in DOMAIN fs
    /\ <<TOP, IMG(1) \o JPG>> \in DOMAIN fs

\* the photos the run in progress is to handle, as the tree holds them now
PhotosInScope ==
    {p \in DOMAIN fs : /\ flags.recursive \/ p[1] = TOP
                       /\ GlobPhoto(p[2])
                       /\ ~IsMacFile(p[2])}

\* what an uninterrupted run without failures leaves: every photo carries a
\* structured name, the sequence numbers are 1..n without repetition, every
\* photo has its text watermark exactly when watermarking is on and its map
\* clip exactly when watermarking and map are on and the photo has GPS
RunCompleted ==
    /\ PhotosInScope # {}
    /\ {SequenceOfName(p[2]) : p \in PhotosInScope} = 1..Cardinality(PhotosInScope)
    /\ \A p \in PhotosInScope :
          /\ fs[p].text = (IF flags.add_watermark THEN 1 ELSE 0)
          /\ fs[p].maps = (IF flags.add_watermark /\ flags.add_map /\ fs[p].gps.some
                           THEN 1 ELSE 0)

\* Every run that is neither dry nor terminated leaves the tree completed.
UninterruptedRunCompletes ==
    (pc = "done" /\ ~flags.dry_run /\ budget.kills = MaxKills) => RunCompleted

\* C12: if a run is terminated from outside after any step (between two
\* files, or between a file's rename and its watermark) and the tool is run
\* again with the same flags on the same directory, the final directory is the
\* one an uninterrupted run would have produced: every photo renamed, sequence
\* numbers unique and continuing from the highest one present, every file with
\* the watermark and map state of the uninterrupted run.
C12_ResumedRunCompletes ==
    (pc = "done" /\ ~flags.dry_run /\ budget.kills < MaxKills) => RunCompleted

RenameFailed == idx' = idx + 1 /\ last'.outcome \in {"rename_failed", "crashed"}

\* C13: when a filesystem rename fails, in the fresh-rename path and in the
\* map-backfill path alike, the file keeps its old name and its content is
\* untouched, no sequence number is consumed, and the pipeline goes on to the
\* next candidate file and finishes the run.
C13_RenameFailureContained ==
    [][(Stepping /\ RenameFailed) =>
          /\ fs' = fs
          /\ counter' = counter
          /\ renamed_count' = renamed_count
          /\ map_added_count' = map_added_count
          /\ pc' = "running"]_vars

----------------------------------------------------------------------------
(* Claims about GPS extraction *)

\* a GPS block that is well formed: a dictionary with the four fields, three
\* rational components with non-zero denominators in each coordinate
WellFormed(exif) ==
    /\ exif.gps_info = "dict"
    /\ exif.present = GpsFields
    /\ \A value \in {exif.lat, exif.lon} :
          /\ Len(value) = 3
          /\ \A i \in 1..3 : value[i].kind = "rational" /\ value[i].den # 0

\* C14: a missing or malformed GPS block (missing field, wrong number of
\* components, non-numeric or zero-denominator component, block of the wrong
\* type) makes GPS extraction return absence without raising, so the file is
\* still renamed with timestamp and sequence only.
C14_MalformedGpsIsAbsence ==
    (uStage \in {"extracted", "crashed", "named"} /\ ~WellFormed(uIn)) =>
        /\ ~uOut.raised
        /\ uOut.value = None
        /\ uStage = "named" => uOut.name = Ts14 \o <<"_">> \o Fmt04d(1) \o JPG

\* Well-formed blocks give the coordinate, missing fields give absence.
GpsExtractionOfGoodBlocks ==
    /\ (uStage = "extracted" /\ WellFormed(uIn)) =>
          uOut.value = Coordinates(
              IF uIn.lat_ref = "S" THEN 0 - GrazGps.latitude ELSE GrazGps.latitude,
              IF uIn.lon_ref = "W" THEN 0 - GrazGps.longitude ELSE GrazGps.longitude)
    /\ (uStage # "exif" /\ uIn.gps_info = "dict" /\ GPSLatitude \notin uIn.present) =>
          ~uOut.raised /\ uOut.value = None

----------------------------------------------------------------------------
(* Claims about the summary, the cleanup and the names *)

\* C15: at the end of every non-dry run the counts account for every
\* candidate exactly once: found = processed + skipped + maps-added, with the
\* files left untouched for lack of a date and the files whose rename failed
\* among the skipped.
C15_CountsAccountForEveryFile ==
    (pc = "done" /\ ~flags.dry_run) =>
        Len(photo_files) = renamed_count + skipped_count + map_added_count

\* a platform metadata artifact: .DS_Store or a ._* resource fork
Artifact(name) ==
    \/ name = <<".", "D", "S", "_", "S", "t", "o", "r", "e">>
    \/ (Len(name) >= 2 /\ name[1] = "." /\ name[2] = "_")

\* the end of the main pass of a run that is not dry: every artifact of the
\* tree is deleted, nothing else is deleted or changed
CleanupRuns ==
    (pc = "running" /\ idx > Len(photo_files)) =>
        /\ pc' = "done"
        /\ IF flags.dry_run THEN fs' = fs
           ELSE /\ \A p \in DOMAIN fs' : ~Artifact(p[2])
                /\ \A p \in DOMAIN fs :
                      ~Artifact(p[2]) => (p \in DOMAIN fs' /\ fs'[p] = fs[p])
                /\ DOMAIN fs' \subseteq DOMAIN fs

\* C16 as stated: every non-dry run that completes its main pass then runs
\* the cleanup, which deletes every .DS_Store and ._* file of the whole tree,
\* also when recursive is off and also when the scan found no candidate
\* photo; a dry run deletes none; cleanup never deletes a candidate photo or a
\* renamed file.
C16_CleanupAlways ==
    /\ [][CleanupRuns]_vars
    /\ []((pc = "done" /\ ~flags.dry_run) => \A p \in DOMAIN fs : ~Artifact(p[2]))
    /\ []((pc = "done" /\ flags.dry_run) => deleted = {})

\* C16 amended: the same for every run that found at least one candidate
\* photo; a run that finds none returns before the main pass and deletes
\* nothing.
C16_CleanupUnlessNoPhotos ==
    /\ [][CleanupRuns]_vars
    /\ []((pc = "done" /\ ~flags.dry_run /\ photo_files # <<>>) =>
            \A p \in DOMAIN fs : ~Artifact(p[2]))
    /\ []((pc = "done" /\ (flags.dry_run \/ photo_files = <<>>)) => deleted = {})
    /\ [](\A p \in deleted : Artifact(p[2]))

C16_Witness ==
    /\ pc = "done"
    /\ ~flags.dry_run /\ ~flags.recursive
    /\ deleted = {<<SUB, DS_STORE>>}
    /\ renamed_count = 1
    /\ last.new_path \in DOMAIN fs

\* the step is a fresh rename (or its dry-run announcement) of photo_files[idx]
FreshNamed ==
    /\ pc = "running" /\ idx <= Len(photo_files) /\ idx' = idx + 1
    /\ last'.act = "fresh"
    /\ last'.outcome \in {"renamed", "would_rename"}

\* C17: a fresh rename builds timestamp, separator, 4-digit sequence, then,
\* with a location, separator city separator country code and the map suffix
\* exactly when a map is requested, and without a location (resolution gave
\* none, or no GPS) nothing more; the extension is kept and the file stays in
\* its directory.
C17_FreshNameLayout ==
    [][FreshNamed =>
        LET old == photo_files[idx]
            file == fs[old]
            sep == <<flags.separator>>
            digits == Fmt04d(counter)
            loc == last'.location
            body == get_datetime_from_exif(file) \o sep \o digits
                        \o (IF loc.some
                            THEN sep \o loc.city \o sep \o loc.country_code
                                    \o (IF flags.add_map THEN MAP_TAG ELSE <<>>)
                            ELSE <<>>)
        IN  /\ counter <= 9999 => Len(digits) = 4
            /\ ~file.gps.some => ~loc.some
            /\ last'.new_path = <<old[1], body \o PathSuffix(old[2])>>
            /\ last'.outcome = "renamed" =>
                  /\ last'.new_path \in DOMAIN fs'
                  /\ fs'[last'.new_path].id = file.id
                  /\ (old # last'.new_path => old \notin DOMAIN fs')]_vars

C17_Witness ==
    /\ last.act = "fresh" /\ last.outcome = "renamed"
    /\ last.location.some /\ flags.add_map
    /\ last.new_path \in DOMAIN fs
    /\ PathSuffix(last.new_path[2]) = JPG
    /\ \E k \in 1..Len(last.new_path[2]) - 3 :
          SubSeq(last.new_path[2], k, k + 3) = MAP_TAG

----------------------------------------------------------------------------
(* Claims about the location resolver *)

\* the providers in the order of the claim, for a renamer with or without key
ProviderOrder(api_key) ==
    IF api_key THEN <<"nominatim", "locationiq", "bigdatacloud">>
    ELSE <<"nominatim", "bigdatacloud">>

\* what the provider called n-th answers to the lookup in hand
AnswerOf(provider) ==
    CASE provider = "nominatim" -> uIn.answers[1]
      [] provider = "locationiq" -> uIn.answers[2]
      [] provider = "bigdatacloud" -> uIn.answers[3]

ReverseInHand ==
    /\ uStage \in {"nominatim", "locationiq", "bigdatacloud", "returned"}
    /\ uIn.kind = "reverse"

\* the calls made so far follow the order, each one after a failure of the
\* one before, and a lookup that called a provider returns the first success
\* or else the coordinates
CallsInOrder ==
    ReverseInHand =>
        LET order == ProviderOrder(uOut.api_key)
            calls == uOut.calls
            n == Len(calls)
        IN  /\ n <= 3 /\ n <= Len(order)
            /\ calls = SubSeq(order, 1, n)
            /\ \A i \in 1..(n - 1) : ~AnswerOf(calls[i]).some
            /\ uStage # "returned" => \A i \in 1..n : ~AnswerOf(calls[i]).some
            /\ (uStage = "returned" /\ n > 0) =>
                  /\ uOut.result.some
                  /\ IF AnswerOf(calls[n]).some
                     THEN uOut.result = AnswerOf(calls[n])
                     ELSE /\ calls = order
                          /\ uOut.result = Location(Fmt5f(uIn.gps.latitude),
                                                    Fmt5f(uIn.gps.longitude))

\* a lookup that the cache cannot answer starts with the first provider
MissStartsChain ==
    (/\ uStage \in {"ready", "returned"}
     /\ uOut'.left = uOut.left - 1
     /\ uIn'.kind = "reverse"
     /\ uOut.use_geocoding
     /\ ReverseKey(uIn'.gps) \notin DOMAIN uOut.cache)
        => (uStage' = "nominatim" /\ uOut'.calls = <<>>)

\* C18: with geocoding on and a cache miss the providers are tried in the
\* order Nominatim, LocationIQ (only with an API key), BigDataCloud; the first
\* success is returned and no later provider is called; if all fail the
\* coordinate pseudo-location is returned, never None; at most three calls are
\* made and the lookup returns.
C18_ProviderChain ==
    /\ []CallsInOrder
    /\ [][MissStartsChain]_vars
    /\ ((uStage \in {"nominatim", "locationiq", "bigdatacloud"}) ~> (uStage = "returned"))

C18_Witness ==
    /\ uStage = "returned" /\ uIn.kind = "reverse"
    /\ uOut.calls = <<"nominatim", "locationiq", "bigdatacloud">>
    /\ uOut.result = PseudoLocation(uIn.gps)

\* the fields in the order of the claim
LocalityOrder == <<"city", "town", "village", "municipality", "county">>

\* the first field of the order that is present and not empty (0: none)
FirstNonEmpty(address) ==
    LET full == {i \in 1..Len(LocalityOrder) :
                    address[LocalityOrder[i]].some /\ address[LocalityOrder[i]].text # <<>>}
    IN  IF full = {} THEN 0 ELSE CHOOSE i \in full : \A j \in full : i <= j

\* C19: Nominatim and LocationIQ pick the locality in the same order: the
\* first non-empty of city, town, village, municipality, county, for every
\* combination of present and absent fields.
C19_SameLocalityOrder ==
    uStage = "picked" =>
        /\ uOut.nominatim = uOut.locationiq
        /\ FirstNonEmpty(uIn) > 0 =>
              /\ uOut.nominatim = uIn[LocalityOrder[FirstNonEmpty(uIn)]].text
              /\ uOut.locationiq = uIn[LocalityOrder[FirstNonEmpty(uIn)]].text

\* Nominatim alone follows the order
NominatimFollowsOrder ==
    (uStage = "picked" /\ FirstNonEmpty(uIn) > 0) =>
        uOut.nominatim = uIn[LocalityOrder[FirstNonEmpty(uIn)]].text

\* a lookup starts
LookupStarts ==
    /\ uStage \in {"ready", "returned"}
    /\ uOut'.left = uOut.left - 1

\* a reverse lookup of a coordinate that rounds as one a provider has answered
\* for returns that answer at once
ResolvedAnswersFromCache ==
    (/\ LookupStarts
     /\ uIn'.kind = "reverse"
     /\ Rounded(uIn'.gps) \in DOMAIN uOut.resolved)
        => /\ uStage' = "returned"
           /\ uOut'.calls = <<>>
           /\ uOut'.result = uOut.resolved[Rounded(uIn'.gps)]
           /\ uOut'.cache = uOut.cache

\* a forward lookup of a place the search has found returns those coordinates
FoundAnswersFromCache ==
    (/\ LookupStarts
     /\ uIn'.kind = "forward"
     /\ <<uIn'.city, uIn'.country_code>> \in DOMAIN uOut.found)
        => /\ uStage' = "returned"
           /\ uOut'.calls = <<>>
           /\ uOut'.result = uOut.found[<<uIn'.city, uIn'.country_code>>]

HasForwardPrefix(cache_key) ==
    Len(cache_key) >= 4 /\ SubSeq(cache_key, 1, 4) = <<"f", "w", "d", ":">>

\* forward entries are exactly the entries under the prefix and hold
\* coordinates, the others hold locations; a reverse lookup returns a
\* location or None, a forward lookup coordinates or None
KindsApart ==
    uStage \in {"ready", "returned", "nominatim", "locationiq", "bigdatacloud", "search"} =>
        /\ \A k \in DOMAIN uOut.cache :
              IF HasForwardPrefix(k)
              THEN "latitude" \in DOMAIN uOut.cache[k]
              ELSE "city" \in DOMAIN uOut.cache[k]
        /\ (uStage = "returned" /\ uOut.result.some) =>
              IF uIn.kind = "reverse"
              THEN "city" \in DOMAIN uOut.result
              ELSE "latitude" \in DOMAIN uOut.result

\* C20: once a provider has answered for a coordinate, every later reverse
\* lookup of a coordinate that rounds to the same four-decimal key returns
\* that location and calls no provider; forward entries live under a prefixed
\* key, so a forward entry never answers a reverse lookup nor a reverse entry
\* a forward lookup.
C20_CacheAnswersByKind ==
    /\ [][ResolvedAnswersFromCache]_vars
    /\ [][FoundAnswersFromCache]_vars
    /\ []KindsApart

C20_Witness ==
    /\ uStage = "returned" /\ uIn.kind = "reverse"
    /\ uIn.gps = Coordinates(4707072, 1543948)
    /\ uIn.answers = <<Graz, None, Styria>>
    /\ uOut.calls = <<>>
    /\ uOut.result = GrazStadt
    /\ ForwardKey(Graz.city, Graz.country_code) \in DOMAIN uOut.cache

----------------------------------------------------------------------------
(* Claims about rendering, the map tag and the targets of renames *)

\* the step is a fresh rename with a watermark asked for, after which the
\* file of photo_files[idx] lies at another path exactly as it was: the
\* rename was done and the rendering saved nothing
RenderFailedAfterRename ==
    /\ Stepping /\ idx' = idx + 1
    /\ ~BackfillApplies(flags, photo_files[idx][2])
    /\ ~SkipApplies(flags, photo_files[idx][2])
    /\ flags.add_watermark /\ ~flags.dry_run
    /\ photo_files[idx] \in DOMAIN fs
    /\ photo_files[idx] \notin DOMAIN fs'
    /\ \E p \in DOMAIN fs' : fs'[p] = fs[photo_files[idx]]

\* C21: when the rendering fails after a fresh rename, the rename stays: the
\* file keeps its new name, counter and renamed_count advance by one and the
\* loop goes on to the next file.
C21_RenderFailureKeepsRename ==
    [][RenderFailedAfterRename =>
        LET old == photo_files[idx]
            file == fs[old]
        IN  /\ last'.outcome = "renamed"
            /\ last'.new_path[1] = old[1]
            /\ last'.new_path \in DOMAIN fs'
            /\ fs'[last'.new_path] = file
            /\ StartsWith(last'.new_path[2],
                          get_datetime_from_exif(file) \o <<flags.separator>>
                             \o Fmt04d(counter))
            /\ counter' = counter + 1
            /\ renamed_count' = renamed_count + 1
            /\ pc' = "running"]_vars

C21_Witness ==
    /\ pc = "running"
    /\ flags.add_watermark /\ ~flags.dry_run
    /\ last.act = "fresh" /\ last.outcome = "renamed"
    /\ last.new_path \in DOMAIN fs
    /\ last.path \notin DOMAIN fs
    /\ fs[last.new_path].saves = 0 /\ fs[last.new_path].text = 0
    /\ renamed_count >= 1
    /\ counter = last.seq + 1

\* C22: after any sequence of runs a name carries the map tag if and only if
\* a map clip has been composited onto the file, and no file is stamped with
\* a map twice.
C22_MapTagIffMapDrawn ==
    \A p \in DOMAIN fs :
        /\ has_map_tag(p[2]) <=> fs[p].maps > 0
        /\ fs[p].maps <= 1

\* the photo files of the whole tree
PhotosOfTree(tree) == {p \in DOMAIN tree : GlobPhoto(p[2]) /\ ~IsMacFile(p[2])}

\* C23: no rename of the pipeline, fresh or map backfill, targets a path at
\* which another file lies, so no photo is overwritten and a run leaves the
\* number of photo files of the tree as it was.
C23_NoRenameOntoExistingFile ==
    [][pc = "running" =>
        /\ \A p \in PhotosOfTree(fs) : \E q \in DOMAIN fs' : fs'[q].id = fs[p].id
        /\ Cardinality(PhotosOfTree(fs')) = Cardinality(PhotosOfTree(fs))]_vars

\* the whole run of digits a name carries after its timestamp and "_": what
\* f"{counter:04d}" wrote there
RECURSIVE DigitRun(_, _)
DigitRun(name, i) ==
    IF i <= Len(name) /\ name[i] \in Digit
    THEN <<name[i]>> \o DigitRun(name, i + 1)
    ELSE <<>>

SequenceWritten(name) == StrToInt(DigitRun(name, Len(datetime_from_name(name)) + 2))

\* C24: the allocator's starting value is greater than the sequence number
\* written into every name of the tool in the directory, also for sequences
\* above 9999: such names are recognised as processed and their full
\* sequence value is read back.
C24_StartAboveEverySequence ==
    aStage = "allocated" =>
        \A f \in aDir :
            (datetime_from_name(f) # <<>> /\ StartsWith(f, datetime_from_name(f) \o <<"_">>)
                /\ DigitRun(f, Len(datetime_from_name(f)) + 2) # <<>>
                /\ Len(DigitRun(f, Len(datetime_from_name(f)) + 2)) >= 4) =>
                    /\ is_already_processed(f)
                    /\ aResult > SequenceWritten(f)

\* up to 9999 the starting value is above every sequence written
StartAboveFourDigitSequences ==
    aStage = "allocated" =>
        \A f \in aDir :
            (is_already_processed(f) /\ SequenceWritten(f) <= 9999) =>
                aResult > SequenceWritten(f)

====
